---- MODULE Spec2Model ----
(***************************************************************************)
(* Model of nodes.py (comfyui-ksampler-tester-loop): the loop nodes that   *)
(* map a process-wide call counter to one parameter combination.           *)
(*                                                                         *)
(* Numbers that are floats in the source (cfg, shift) are fixed-point      *)
(* integers in thousandths, so that round(x, 2) is a real conversion.      *)
(* Time is an integer clock reading (time.time()).                         *)
(***************************************************************************)
EXTENDS Integers, Sequences, FiniteSets, TLC

(***************************************************************************)
(* Bounds of the model.                                                    *)
(***************************************************************************)
\* invocations of node functions in one behaviour of Spec; SpecDeep allows one more
MaxCalls == 2
\* largest clock reading
MaxClock == 1
\* largest axis length drawn by SpecPolicy
MaxAxis == 2
\* largest first counter value drawn by SpecPolicy
MaxStart == 2
\* invocations each thread makes in SpecConc
MaxThreadCalls == 2
\* largest counter value the cursors start from in SpecInputs
MaxCounter == 15
\* evaluations in one behaviour of SpecInputs
MaxInputCalls == 1
\* largest counter value the cursors start from in SpecRuns
MaxRunCounter == 3
\* graph runs in one behaviour of SpecRuns
MaxRunCalls == 2
\* graph runs in one behaviour of SpecLive
MaxLiveCalls == 40
\* evaluations in one behaviour of SpecModes
MaxModeCalls == 2

Threads == {1, 2}
\* node objects of each class that the host has created
Instances == {1, 2}
Seeds == {0, 1}

(***************************************************************************)
(* Module constants of nodes.py.  The category universes come from the     *)
(* host registry (comfy.samplers); the model keeps the first names of the  *)
(* fallback lists.                                                         *)
(***************************************************************************)
KSAMPLER_NAMES == <<"euler", "euler_cfg_pp", "euler_ancestral">>
SCHEDULER_NAMES == <<"normal", "karras">>

Modes == {"sequential", "random", "ping_pong"}
\* the one cursor of a single-mode node is keyed by this pseudo mode
NoMode == "-"
MultiModeNodes == {"SamplerLoop", "AllParametersLoop"}
SingleModeNodes == {"FloatRangeLoop", "ParametersRangeLoop"}
Nodes == MultiModeNodes \cup SingleModeNodes
Keys == (MultiModeNodes \X Modes) \cup (SingleModeNodes \X {NoMode})
\* _last_execution_id = None
None == <<>>

VARIABLES
  global_counters,      \* [Keys -> Nat]: _global_counter / _global_counters[mode]
  last_execution_ids,   \* [Keys -> token or None]
  first_call_done,      \* set of <<node, instance, mode>>: the _first_call_done attributes
  clock,                \* the reading time.time() returns now
  rng,                  \* state of the process-wide generator of module random
  calls,                \* invocations made so far
  last,                 \* observation of the latest invocation
  hist,                 \* [Keys -> the first invocations of the key: <<token, counter used>>]
  drawn,                \* random-mode picks seen: <<seed, counter, domain size, index>>
  conc,                 \* [Threads -> the thread's place in loop_sampler] (SpecConc)
  pol                   \* a policy applied to consecutive counters (SpecPolicy)

vars == <<global_counters, last_execution_ids, first_call_done, clock, rng,
          calls, last, hist, drawn, conc, pol>>


(***************************************************************************)
(* Helpers.                                                                *)
(***************************************************************************)
Range(s) == {s[i] : i \in 1..Len(s)}
Min(a, b) == IF a < b THEN a ELSE b
Max(a, b) == IF a > b THEN a ELSE b

\* list.index(x), 0-based: the first position holding x
IndexOf(s, x) == (CHOOSE i \in 1..Len(s) : s[i] = x /\ \A j \in 1..(i - 1) : s[j] # x) - 1

(***************************************************************************)
(* Module random.  The generator is one process-wide object; seed() sets   *)
(* its whole state from the seed alone, every draw reads the state and     *)
(* advances it.  The Mersenne Twister is replaced by a small generator     *)
(* with the same interface.                                                *)
(***************************************************************************)
RngMod == 7
RandomSeed(x) == (3 * x + 1) % RngMod
RandomAdvance(state) == (state + 3) % RngMod
\* _randbelow(n), behind random.choice(seq) and random.randint(0, n - 1)
RandBelow(state, n) == state % n

(***************************************************************************)
(* Traversal policies: the branches on mode.                               *)
(***************************************************************************)
\* variant: an index that moves on every second counter value only
SequentialIndexHalved(step, total) == (step \div 2) % total

\* variant: an index that stays at the last combination instead of wrapping
SequentialIndexClamped(step, total) == IF step < total THEN step ELSE total - 1

SequentialIndex(step, total) == step % total

\* random.seed(seed + step): the state the draw starts from
\* variant: no reseeding, the draw continues from the state the call finds
RandomReseedKeepsState(state, seed, step) == state

RandomReseed(state, seed, step) == RandomSeed(seed + step)

\* variant: a cycle as long as both sweeps with their end points
PingPongCycleDouble(total) == total * 2

\* variant: a cycle forced to 2 where the code forces it to 1
PingPongCycleTwo(total) == IF total * 2 - 2 <= 0 THEN 2 ELSE total * 2 - 2

PingPongCycle(total) == IF total * 2 - 2 <= 0 THEN 1 ELSE total * 2 - 2

\* variant: a backward sweep that starts from the last index again
PingPongRawRepeat(step, total) ==
  LET pos == step % (IF total * 2 - 2 <= 0 THEN 1 ELSE total * 2 - 2)
  IN  IF pos < total THEN pos ELSE total - 1 - (pos - total)

\* the index before the clamp
PingPongRaw(step, total) ==
  LET pos == step % PingPongCycle(total)
  IN  IF pos < total THEN pos ELSE total - 2 - (pos - total)

PingPongIndex(step, total) == Max(0, Min(PingPongRaw(step, total), total - 1))

(***************************************************************************)
(* Index decomposition of the nodes with more than one axis.  Each returns *)
(* the per-axis indices, most significant axis first.                      *)
(***************************************************************************)
\* variant: cfg the fast axis and shift the slow one
DecomposeFloatSwapped(index, nCfg, nShift) == <<index % nCfg, index \div nCfg>>

\* FloatRangeLoop: cfg, shift
DecomposeFloat(index, nCfg, nShift) == <<index \div nShift, index % nShift>>

\* ParametersRangeLoop: steps, cfg, shift
DecomposeParameters(index, nSteps, nCfg, nShift) ==
  LET remaining == index % (nCfg * nShift)
  IN  <<index \div (nCfg * nShift), remaining \div nShift, remaining % nShift>>

\* SamplerSchedulerLoop: sampler, scheduler
DecomposeSamplerScheduler(index, nSamplers, nSchedulers) ==
  <<index \div nSchedulers, index % nSchedulers>>

\* variant: the cfg index divided by the size of the cfg axis
DecomposeAllCfgDivisor(index, nSteps, nCfg, nShift, nSamplers, nSchedulers) ==
  LET remaining1 == index % (nSteps * nCfg * nShift * nSamplers)
      remaining2 == remaining1 % (nSteps * nCfg * nShift)
      remaining3 == remaining2 % (nSteps * nCfg)
  IN  << index \div (nSteps * nCfg * nShift * nSamplers),
         remaining1 \div (nSteps * nCfg * nShift),
         remaining2 \div (nSteps * nCfg),
         remaining3 \div nCfg,
         remaining3 % nSteps >>

\* variant: the axis order reversed, steps the slowest axis
DecomposeAllStepsSlow(index, nSteps, nCfg, nShift, nSamplers, nSchedulers) ==
  << index % nSchedulers,
     (index \div nSchedulers) % nSamplers,
     (index \div (nSchedulers * nSamplers)) % nShift,
     (index \div (nSchedulers * nSamplers * nShift)) % nCfg,
     index \div (nSchedulers * nSamplers * nShift * nCfg) >>

\* variant: a scheduler index that stays at the first scheduler
DecomposeAllSchedulerStuck(index, nSteps, nCfg, nShift, nSamplers, nSchedulers) ==
  LET remaining1 == index % (nSteps * nCfg * nShift * nSamplers)
      remaining2 == remaining1 % (nSteps * nCfg * nShift)
      remaining3 == remaining2 % (nSteps * nCfg)
  IN  << index \div (nSteps * nCfg * nShift * nSamplers * nSchedulers),
         remaining1 \div (nSteps * nCfg * nShift),
         remaining2 \div (nSteps * nCfg),
         remaining3 \div nSteps,
         remaining3 % nSteps >>

\* AllParametersLoop: scheduler, sampler, shift, cfg, steps
DecomposeAll(index, nSteps, nCfg, nShift, nSamplers, nSchedulers) ==
  LET remaining1 == index % (nSteps * nCfg * nShift * nSamplers)
      remaining2 == remaining1 % (nSteps * nCfg * nShift)
      remaining3 == remaining2 % (nSteps * nCfg)
  IN  << index \div (nSteps * nCfg * nShift * nSamplers),
         remaining1 \div (nSteps * nCfg * nShift),
         remaining2 \div (nSteps * nCfg),
         remaining3 \div nSteps,
         remaining3 % nSteps >>

(***************************************************************************)
(* Axis generation.                                                        *)
(***************************************************************************)
\* str.strip() on the items the inputs of the model use
Strip(item) ==
  CASE item = " euler "  -> "euler"
    [] item = " karras " -> "karras"
    [] item = " "        -> ""
    [] OTHER             -> item

\* variant: the items compared as they are, without strip()
ParseSkipListUntrimmed(items, available_list) ==
  SelectSeq(items, LAMBDA item : item \in Range(available_list))

\* parse_skip_list; items is skip_str.split(',')
ParseSkipList(items, available_list) ==
  LET stripped == [i \in 1..Len(items) |-> Strip(items[i])]
  IN  SelectSeq(stripped, LAMBDA item : item \in Range(available_list))

\* [s for s in universe if s not in skip_list]
FilterNames(universe, skip_list) ==
  SelectSeq(universe, LAMBDA s : s \notin Range(skip_list))

\* variant: a fallback to the first name of the universe only
AvailableNamesFirstOnly(universe, skip_list) ==
  IF FilterNames(universe, skip_list) = <<>> THEN <<universe[1]>>
  ELSE FilterNames(universe, skip_list)

\* the filtered list, or the full list when the filter leaves nothing
AvailableNames(universe, skip_list) ==
  IF FilterNames(universe, skip_list) = <<>> THEN universe
  ELSE FilterNames(universe, skip_list)

\* round(x, 2) of a value in thousandths: the nearest hundredth, a tie to the
\* even hundredth
Round2(x) ==
  LET q == x \div 10
      r == x % 10
  IN  IF r < 5 THEN 10 * q
      ELSE IF r > 5 THEN 10 * (q + 1)
      ELSE IF q % 2 = 0 THEN 10 * q ELSE 10 * (q + 1)

\* the while loop of a float axis from the value current on; hangs says that
\* the loop never leaves (the value stops growing at or below end)
RECURSIVE FloatWhile(_, _, _, _)
FloatWhile(current, end, step, values) ==
  IF current > end THEN [values |-> values, hangs |-> FALSE]
  ELSE IF Round2(current + step) <= current /\ (current = Round2(current) \/ step <= 0)
       THEN [values |-> Append(values, Round2(current)), hangs |-> TRUE]
  ELSE FloatWhile(Round2(current + step), end, step, Append(values, Round2(current)))

\* variant: a loop that stops before the value end itself
RECURSIVE StepsWhileExclusive(_, _, _, _)
StepsWhileExclusive(current, end, interval, values) ==
  IF current >= end THEN [values |-> values, hangs |-> FALSE]
  ELSE IF interval <= 0 THEN [values |-> Append(values, current), hangs |-> TRUE]
  ELSE StepsWhileExclusive(current + interval, end, interval, Append(values, current))

\* the while loop of the steps axis
RECURSIVE StepsWhile(_, _, _, _)
StepsWhile(current, end, interval, values) ==
  IF current > end THEN [values |-> values, hangs |-> FALSE]
  ELSE IF interval <= 0 THEN [values |-> Append(values, current), hangs |-> TRUE]
  ELSE StepsWhile(current + interval, end, interval, Append(values, current))

\* FloatRangeLoop: the loop runs whatever start and end are
FloatAxisUnguarded(spec) == FloatWhile(spec[1], spec[2], spec[3], <<>>)

\* ParametersRangeLoop, AllParametersLoop: start > end gives [start]
FloatAxis(spec) ==
  IF spec[1] <= spec[2] THEN FloatWhile(spec[1], spec[2], spec[3], <<>>)
  ELSE [values |-> <<spec[1]>>, hangs |-> FALSE]

StepsAxis(spec) ==
  IF spec[1] <= spec[2] THEN StepsWhile(spec[1], spec[2], spec[3], <<>>)
  ELSE [values |-> <<spec[1]>>, hangs |-> FALSE]

(***************************************************************************)
(* The cursor: the statements between "Reset counter if requested" and     *)
(* "step = ..." that every node function repeats.                          *)
(***************************************************************************)
\* f"{time.time()}_{threading.current_thread().ident}_{mode}"
ExecutionId(now, thread, mode) == <<now, thread, mode>>

\* f"{time.time()}_{threading.current_thread().ident}" (FloatRangeLoop, ParametersRangeLoop)
ExecutionIdNoMode(now, thread) == <<now, thread>>

\* variant: a reset that sets the counter of every key to 0
ResetEveryCounter(counters, key, reset) ==
  IF reset THEN [k \in DOMAIN counters |-> 0] ELSE counters

\* if reset: counter = 0; the assignment to a dictionary adds a key that the
\* dictionary does not have
ResetCounter(counters, key, reset) ==
  IF ~reset THEN counters
  ELSE IF key \in DOMAIN counters THEN [counters EXCEPT ![key] = 0]
  ELSE [k \in DOMAIN counters \cup {key} |-> IF k = key THEN 0 ELSE counters[k]]

\* if _last_execution_ids[mode] != current_execution_id
IsNewExecution(ids, key, id) == ids[key] # id

\* variant: the test on the counter alone
NotFirstCallCounterOnly(counters, done, key, flag) == counters[key] > 0

\* if _global_counters[mode] > 0 or hasattr(self, f'_first_call_done_{mode}')
NotFirstCall(counters, done, key, flag) == counters[key] > 0 \/ flag \in done

\* variant: a node object without the attribute starts its key again at 0
AdvanceNewObjectRestarts(counters, ids, done, key, flag, id, reset) ==
  LET c0 == ResetCounter(counters, key, reset)
  IN  IF IsNewExecution(ids, key, id)
      THEN IF flag \in done
           THEN [counters |-> [c0 EXCEPT ![key] = @ + 1],
                 ids |-> [ids EXCEPT ![key] = id], done |-> done]
           ELSE [counters |-> [c0 EXCEPT ![key] = 0],
                 ids |-> [ids EXCEPT ![key] = id], done |-> done \cup {flag}]
      ELSE [counters |-> c0, ids |-> ids, done |-> done]

\* the counters, the remembered ids and the instance attributes afterwards
Advance(counters, ids, done, key, flag, id, reset) ==
  LET c0 == ResetCounter(counters, key, reset)
  IN  IF IsNewExecution(ids, key, id)
      THEN IF NotFirstCall(c0, done, key, flag)
           THEN [counters |-> [c0 EXCEPT ![key] = @ + 1],
                 ids |-> [ids EXCEPT ![key] = id], done |-> done]
           ELSE [counters |-> c0,
                 ids |-> [ids EXCEPT ![key] = id], done |-> done \cup {flag}]
      ELSE [counters |-> c0, ids |-> ids, done |-> done]

(***************************************************************************)
(* Inputs the host passes.  Float inputs are in thousandths.               *)
(***************************************************************************)
\* skip_samplers, as skip_samplers.split(','): one name padded with blanks and
\* one unknown name; nothing
SkipSamplerInputs == { <<" euler ", "bogus">>, <<"">> }
\* <<cfg, shift>>, each <<start, end, step>>
FloatInputs ==
  { << <<1000, 2000, 1000>>, <<1500, 1500, 500>> >>,
    << <<2000, 1000, 500>>,  <<1000, 2000, 1000>> >> }
\* <<steps, cfg, shift, skip_samplers, skip_schedulers>>, steps being
\* <<steps_start, steps_end, steps_interval>>
AllInputs ==
  { << <<20, 30, 10>>, <<1000, 2000, 1000>>, <<1500, 1500, 500>>,
       <<" euler ", "bogus">>, <<"karras">> >> }
\* the seed is read in random mode only
SeedsOf(mode) == IF mode = "random" THEN Seeds ELSE {0}

(***************************************************************************)
(* The declared outputs of the nodes.                                      *)
(***************************************************************************)
RETURN_TYPES ==
  [FloatRangeLoop |-> <<"FLOAT", "FLOAT", "INT", "INT", "STRING">>,
   ParametersRangeLoop |-> <<"INT", "FLOAT", "FLOAT", "INT", "INT", "STRING">>,
   SamplerLoop |-> <<"SAMPLERS", "INT", "INT", "STRING">>,
   AllParametersLoop |->
     <<"INT", "FLOAT", "FLOAT", "SAMPLERS", "SCHEDULERS", "INT", "INT", "STRING">>]

RETURN_NAMES ==
  [FloatRangeLoop |->
     <<"cfg", "shift", "current_index", "total_combinations", "current_combination">>,
   ParametersRangeLoop |->
     <<"steps", "cfg", "shift", "current_index", "total_combinations", "current_combination">>,
   SamplerLoop |->
     <<"sampler", "current_index", "total_combinations", "current_combination">>,
   AllParametersLoop |->
     <<"steps", "cfg", "shift", "sampler", "scheduler", "current_index",
       "total_combinations", "current_combination">>]

(***************************************************************************)
(* State.                                                                  *)
(***************************************************************************)
NoCall ==
  [node |-> "none", mode |-> NoMode, inst |-> 0, thread |-> 0, args |-> <<>>,
   reset |-> FALSE, reeval |-> FALSE, id |-> None, prev_id |-> None,
   pre |-> 0, step |-> 0, index |-> 0, total |-> 0, degraded |-> FALSE,
   loops |-> FALSE, error |-> "none", ret |-> <<>>]

Idle ==
  [pc |-> "idle", inst |-> 0, mode |-> NoMode, seed |-> 0, reset |-> FALSE,
   available |-> <<>>, id |-> None, tmp |-> 0, step |-> 0, index |-> 0, n |-> 0,
   base |-> 0, notfirst |-> FALSE, peers |-> 0, prev |-> None, fresh |-> FALSE]

NoPolicy ==
  [node |-> "none", mode |-> NoMode, sizes |-> <<>>, seed |-> 0, start |-> 0,
   out |-> <<>>, at |-> <<>>, cycle_length |-> 0]

\* random seeds itself from the operating system when it is imported: the
\* model starts the generator from one seed, and the random-mode invocations
\* move it to other states
Startup ==
  /\ global_counters = [k \in Keys |-> 0]
  /\ last_execution_ids = [k \in Keys |-> None]
  /\ first_call_done = {}
  /\ clock = 0
  /\ rng = RandomSeed(0)
  /\ calls = 0
  /\ last = NoCall
  /\ hist = [k \in Keys |-> <<>>]
  /\ drawn = {}
  /\ conc = [t \in Threads |-> Idle]

Init == Startup /\ pol = NoPolicy

\* the latest evaluation was this node object's, in this thread, with these
\* inputs: the host may evaluate the node again within the same external
\* invocation
SameExternal(node, inst, thread, args) ==
  /\ last.node = node
  /\ last.inst = inst
  /\ last.thread = thread
  /\ last.args = args

\* what an evaluation that went through the cursor leaves for the properties
Returned(node, mode, inst, thread, args, reset, reeval, id, cur, index, total, ret) ==
  LET key == <<node, mode>>
  IN  /\ global_counters' = cur.counters
      /\ last_execution_ids' = cur.ids
      /\ first_call_done' = cur.done
      /\ calls' = calls + 1
      /\ last' = [node |-> node, mode |-> mode, inst |-> inst, thread |-> thread,
                  args |-> args, reset |-> reset, reeval |-> reeval, id |-> id,
                  prev_id |-> last_execution_ids[key], pre |-> global_counters[key],
                  step |-> cur.counters[key], index |-> index, total |-> total,
                  degraded |-> FALSE, loops |-> FALSE, error |-> "none", ret |-> ret]
      /\ hist' = [hist EXCEPT ![key] = IF Len(@) < 3 THEN Append(@, <<id, cur.counters[key]>>) ELSE @]
      /\ UNCHANGED <<conc, pol>>

\* variant: the early return placed after the reset
ReturnedDegradedAfterReset(node, mode, inst, thread, args, reset, reeval, ret) ==
  LET key == <<node, mode>>
  IN  /\ global_counters' = ResetCounter(global_counters, key, reset)
      /\ UNCHANGED <<last_execution_ids, first_call_done, hist, conc, pol>>
      /\ calls' = calls + 1
      /\ last' = [node |-> node, mode |-> mode, inst |-> inst, thread |-> thread,
                  args |-> args, reset |-> reset, reeval |-> reeval, id |-> None,
                  prev_id |-> last_execution_ids[key], pre |-> global_counters[key],
                  step |-> 0, index |-> 0, total |-> 0,
                  degraded |-> TRUE, loops |-> FALSE, error |-> "none", ret |-> ret]

\* the early return on total_combinations == 0: the cursor is not reached
ReturnedDegraded(node, mode, inst, thread, args, reset, reeval, ret) ==
  LET key == <<node, mode>>
  IN  /\ UNCHANGED <<global_counters, last_execution_ids, first_call_done, hist, conc, pol>>
      /\ calls' = calls + 1
      /\ last' = [node |-> node, mode |-> mode, inst |-> inst, thread |-> thread,
                  args |-> args, reset |-> reset, reeval |-> reeval, id |-> None,
                  prev_id |-> last_execution_ids[key], pre |-> global_counters[key],
                  step |-> global_counters[key], index |-> 0, total |-> 0,
                  degraded |-> TRUE, loops |-> FALSE, error |-> "none", ret |-> ret]

\* a while loop of the axis generation that never leaves: the evaluation stays
\* in it, before the cursor, and returns nothing
NeverReturns(node, mode, inst, thread, args, reset, reeval) ==
  LET key == <<node, mode>>
  IN  /\ UNCHANGED <<global_counters, last_execution_ids, first_call_done, hist, conc, pol>>
      /\ calls' = calls + 1
      /\ last' = [node |-> node, mode |-> mode, inst |-> inst, thread |-> thread,
                  args |-> args, reset |-> reset, reeval |-> reeval, id |-> None,
                  prev_id |-> last_execution_ids[key], pre |-> global_counters[key],
                  step |-> global_counters[key], index |-> 0, total |-> 0,
                  degraded |-> FALSE, loops |-> TRUE, error |-> "none", ret |-> <<>>]

\* _last_execution_ids[mode] of a mode the dictionary has no key for: the
\* evaluation ends with KeyError at the token comparison, after the reset
\* statement has run
RaisesKeyError(node, mode, inst, thread, args, reset, reeval) ==
  LET key == <<node, mode>>
      found == IF key \in DOMAIN global_counters THEN global_counters[key] ELSE 0
  IN  /\ global_counters' = ResetCounter(global_counters, key, reset)
      /\ UNCHANGED <<last_execution_ids, first_call_done, hist, conc, pol>>
      /\ calls' = calls + 1
      /\ last' = [node |-> node, mode |-> mode, inst |-> inst, thread |-> thread,
                  args |-> args, reset |-> reset, reeval |-> reeval,
                  id |-> ExecutionId(clock, thread, mode), prev_id |-> None,
                  pre |-> found, step |-> 0, index |-> 0, total |-> 0,
                  degraded |-> FALSE, loops |-> FALSE, error |-> "KeyError", ret |-> <<>>]

(***************************************************************************)
(* time.time() moves on.                                                   *)
(***************************************************************************)
Tick ==
  /\ clock < MaxClock
  /\ clock' = clock + 1
  /\ UNCHANGED <<global_counters, last_execution_ids, first_call_done, rng,
                 calls, last, hist, drawn, conc, pol>>

(***************************************************************************)
(* FloatRangeLoop.loop_floats (the seed input is not read).                *)
(* In the node functions a value computed once is bound once, by           *)
(* \E x \in {value}.                                                       *)
(***************************************************************************)
LoopFloats(inst, thread, cfg, shift, reset, reeval) ==
  LET node == "FloatRangeLoop"
      key == <<node, NoMode>>
      args == <<cfg, shift, reset>>
  IN  /\ reeval => SameExternal(node, inst, thread, args)
      /\ UNCHANGED <<clock, rng, drawn>>
      /\ \E cfg_axis \in {FloatAxisUnguarded(cfg)}, shift_axis \in {FloatAxisUnguarded(shift)} :
         IF cfg_axis.hangs \/ shift_axis.hangs
         THEN NeverReturns(node, NoMode, inst, thread, args, reset, reeval)
         ELSE
            LET cfg_values == cfg_axis.values
                shift_values == shift_axis.values
                total_combinations == Len(cfg_values) * Len(shift_values)
                id == ExecutionIdNoMode(clock, thread)
            IN  IF total_combinations = 0
                THEN ReturnedDegraded(node, NoMode, inst, thread, args, reset, reeval,
                                      <<cfg[1], shift[1], 0, 0>>)
                ELSE \E cur \in {Advance(global_counters, last_execution_ids, first_call_done,
                                         key, <<node, inst, NoMode>>, id, reset)} :
                     \E index \in {SequentialIndex(cur.counters[key], total_combinations)} :
                       LET at == DecomposeFloat(index, Len(cfg_values), Len(shift_values))
                           selected_cfg == cfg_values[at[1] + 1]
                           selected_shift == shift_values[at[2] + 1]
                       IN  Returned(node, NoMode, inst, thread, args, reset, reeval, id, cur,
                                    index, total_combinations,
                                    <<selected_cfg, selected_shift, index, total_combinations,
                                      <<"CFG", selected_cfg, "Shift", selected_shift>> >>)

(***************************************************************************)
(* ParametersRangeLoop.loop_parameters (the seed input is not read).       *)
(***************************************************************************)
LoopParameters(inst, thread, cfg, shift, steps, reset, reeval) ==
  LET node == "ParametersRangeLoop"
      key == <<node, NoMode>>
      args == <<cfg, shift, steps, reset>>
  IN  /\ reeval => SameExternal(node, inst, thread, args)
      /\ UNCHANGED <<clock, rng, drawn>>
      /\ \E cfg_axis \in {FloatAxis(cfg)}, shift_axis \in {FloatAxis(shift)},
            steps_axis \in {StepsAxis(steps)} :
         IF cfg_axis.hangs \/ shift_axis.hangs \/ steps_axis.hangs
         THEN NeverReturns(node, NoMode, inst, thread, args, reset, reeval)
         ELSE
            LET cfg_values == cfg_axis.values
                shift_values == shift_axis.values
                steps_values == steps_axis.values
                total_combinations == Len(cfg_values) * Len(shift_values) * Len(steps_values)
                id == ExecutionIdNoMode(clock, thread)
            IN  IF total_combinations = 0
                THEN ReturnedDegraded(node, NoMode, inst, thread, args, reset, reeval,
                                      <<cfg[1], shift[1], steps[1], 0, 0, 0>>)
                ELSE \E cur \in {Advance(global_counters, last_execution_ids, first_call_done,
                                         key, <<node, inst, NoMode>>, id, reset)} :
                     \E index \in {SequentialIndex(cur.counters[key], total_combinations)} :
                       LET at == DecomposeParameters(index, Len(steps_values), Len(cfg_values),
                                                     Len(shift_values))
                           selected_cfg == cfg_values[at[2] + 1]
                           selected_shift == shift_values[at[3] + 1]
                           selected_steps == steps_values[at[1] + 1]
                       IN  Returned(node, NoMode, inst, thread, args, reset, reeval, id, cur,
                                    index, total_combinations,
                                    <<selected_steps, selected_cfg, selected_shift, index,
                                      total_combinations,
                                      <<selected_steps, selected_cfg, selected_shift>> >>)

(***************************************************************************)
(* SamplerLoop.loop_sampler                                                *)
(***************************************************************************)
LoopSampler(inst, thread, mode, seed, reset, skip_samplers, reeval) ==
  LET node == "SamplerLoop"
      key == <<node, mode>>
      args == <<mode, seed, reset, skip_samplers>>
      id == ExecutionId(clock, thread, mode)
  IN  /\ reeval => SameExternal(node, inst, thread, args)
      /\ UNCHANGED clock
      /\ IF key \notin DOMAIN last_execution_ids
         THEN /\ UNCHANGED <<rng, drawn>>
              /\ RaisesKeyError(node, mode, inst, thread, args, reset, reeval)
         ELSE
         \E available_samplers \in
              {AvailableNames(KSAMPLER_NAMES, ParseSkipList(skip_samplers, KSAMPLER_NAMES))},
            cur \in {Advance(global_counters, last_execution_ids, first_call_done,
                             key, <<node, inst, mode>>, id, reset)} :
           LET total_combinations == Len(available_samplers)
               step == cur.counters[key]
               seeded == RandomReseed(rng, seed, step)
               selected_random ==
                 available_samplers[RandBelow(seeded, Len(available_samplers)) + 1]
           IN  \E index \in
                    {CASE mode = "sequential" -> SequentialIndex(step, Len(available_samplers))
                       [] mode = "random"     -> IndexOf(available_samplers, selected_random)
                       [] mode = "ping_pong"  -> PingPongIndex(step, Len(available_samplers))
                       [] OTHER               -> 0} :
                 /\ rng' = IF mode = "random" THEN RandomAdvance(seeded) ELSE rng
                 /\ drawn' = IF mode = "random"
                             THEN drawn \cup {<<seed, step, total_combinations, index>>}
                             ELSE drawn
                 /\ Returned(node, mode, inst, thread, args, reset, reeval, id, cur,
                             index, total_combinations,
                             <<available_samplers[index + 1], index, total_combinations,
                               <<"Sampler", available_samplers[index + 1]>> >>)

(***************************************************************************)
(* AllParametersLoop.loop_all_parameters                                   *)
(***************************************************************************)
LoopAllParameters(inst, thread, mode, steps, cfg, shift, seed, reset, skip_samplers, skip_schedulers, reeval) ==
  LET node == "AllParametersLoop"
      key == <<node, mode>>
      args == <<mode, steps, cfg, shift, seed, reset, skip_samplers, skip_schedulers>>
      id == ExecutionId(clock, thread, mode)
  IN  /\ reeval => SameExternal(node, inst, thread, args)
      /\ UNCHANGED clock
      /\ \E available_samplers \in
              {AvailableNames(KSAMPLER_NAMES, ParseSkipList(skip_samplers, KSAMPLER_NAMES))},
            available_schedulers \in
              {AvailableNames(SCHEDULER_NAMES, ParseSkipList(skip_schedulers, SCHEDULER_NAMES))},
            steps_axis \in {StepsAxis(steps)},
            cfg_axis \in {FloatAxis(cfg)},
            shift_axis \in {FloatAxis(shift)} :
         IF steps_axis.hangs \/ cfg_axis.hangs \/ shift_axis.hangs
         THEN /\ UNCHANGED <<rng, drawn>>
              /\ NeverReturns(node, mode, inst, thread, args, reset, reeval)
         ELSE
            \E total_combinations \in
                 {Len(steps_axis.values) * Len(cfg_axis.values) * Len(shift_axis.values)
                    * Len(available_samplers) * Len(available_schedulers)} :
              IF total_combinations = 0
              THEN /\ UNCHANGED <<rng, drawn>>
                   /\ ReturnedDegraded(node, mode, inst, thread, args, reset, reeval,
                                       <<steps[1], cfg[1], shift[1], available_samplers[1],
                                         available_schedulers[1], 0, 0, <<>> >>)
              ELSE IF key \notin DOMAIN last_execution_ids
              THEN /\ UNCHANGED <<rng, drawn>>
                   /\ RaisesKeyError(node, mode, inst, thread, args, reset, reeval)
              ELSE \E cur \in {Advance(global_counters, last_execution_ids, first_call_done,
                                       key, <<node, inst, mode>>, id, reset)} :
                   LET step == cur.counters[key]
                       seeded == RandomReseed(rng, seed, step)
                   IN  \E index \in
                            {CASE mode = "sequential" -> SequentialIndex(step, total_combinations)
                               [] mode = "random"     -> RandBelow(seeded, total_combinations)
                               [] mode = "ping_pong"  -> PingPongIndex(step, total_combinations)
                               [] OTHER               -> 0} :
                       \E at \in {DecomposeAll(index, Len(steps_axis.values), Len(cfg_axis.values),
                                               Len(shift_axis.values), Len(available_samplers),
                                               Len(available_schedulers))} :
                         LET selected_scheduler == available_schedulers[at[1] + 1]
                             selected_sampler == available_samplers[at[2] + 1]
                             selected_shift == shift_axis.values[at[3] + 1]
                             selected_cfg == cfg_axis.values[at[4] + 1]
                             selected_steps == steps_axis.values[at[5] + 1]
                         IN  /\ rng' = IF mode = "random" THEN RandomAdvance(seeded) ELSE rng
                             /\ drawn' = IF mode = "random"
                                         THEN drawn \cup {<<seed, step, total_combinations, index>>}
                                         ELSE drawn
                             /\ Returned(node, mode, inst, thread, args, reset, reeval, id, cur,
                                         index, total_combinations,
                                         <<selected_steps, selected_cfg, selected_shift,
                                           selected_sampler, selected_scheduler, index,
                                           total_combinations,
                                           <<selected_steps, selected_cfg, selected_shift,
                                             selected_sampler, selected_scheduler>> >>)

(***************************************************************************)
(* The host evaluates the nodes of the graph, one call at a time.          *)
(***************************************************************************)
EvaluateFloats ==
  \E inst \in Instances, thread \in Threads, in \in FloatInputs,
     reset \in BOOLEAN, reeval \in BOOLEAN :
    LoopFloats(inst, thread, in[1], in[2], reset, reeval)

EvaluateSampler ==
  \E inst \in Instances, thread \in Threads, mode \in Modes,
     reset \in BOOLEAN, skip_samplers \in SkipSamplerInputs, reeval \in BOOLEAN :
    \E seed \in SeedsOf(mode) :
      LoopSampler(inst, thread, mode, seed, reset, skip_samplers, reeval)

EvaluateAll ==
  \E inst \in Instances, thread \in Threads, mode \in Modes, in \in AllInputs,
     reset \in BOOLEAN, reeval \in BOOLEAN :
    \E seed \in SeedsOf(mode) :
      LoopAllParameters(inst, thread, mode, in[1], in[2], in[3], seed, reset,
                        in[4], in[5], reeval)

Next ==
  \/ Tick
  \/ calls < MaxCalls /\ EvaluateFloats
  \/ calls < MaxCalls /\ EvaluateSampler
  \/ calls < MaxCalls /\ EvaluateAll

Spec == Init /\ [][Next]_vars

\* the same program, followed for one invocation more
NextDeep ==
  \/ Tick
  \/ calls < MaxCalls + 1 /\ EvaluateFloats
  \/ calls < MaxCalls + 1 /\ EvaluateSampler
  \/ calls < MaxCalls + 1 /\ EvaluateAll

SpecDeep == Init /\ [][NextDeep]_vars

(***************************************************************************)
(* SamplerLoop.loop_sampler run by two threads.  The interpreter may switch *)
(* threads between any two statements, and between the load and the store  *)
(* of "_global_counters[mode] += 1"; the code takes no lock.  conc[t] holds *)
(* the locals of thread t; n counts its invocations; base, notfirst, peers  *)
(* and fresh describe its current invocation for the properties: the       *)
(* counter and the first-call test as the invocation found them, the       *)
(* number of invocations of the other thread that ran during it, and       *)
(* whether its token differs from the one (prev) it found remembered.      *)
(***************************************************************************)
Other(t) == CHOOSE u \in Threads : u # t
KeyOf(t) == <<"SamplerLoop", conc[t].mode>>
FlagOf(t) == <<"SamplerLoop", conc[t].inst, conc[t].mode>>
At(t, pc) == conc[t].pc = pc
Goto(t, pc) == conc' = [conc EXCEPT ![t].pc = pc]
History == <<calls, last, hist, drawn, pol>>

\* the threads run the one node object of the workflow
SharedInstance == CHOOSE inst \in Instances : TRUE

\* the call, and the statements up to the filtered list
Begin(t, inst, mode, seed, reset, skip_samplers) ==
  LET key == <<"SamplerLoop", mode>>
      busy == conc[Other(t)].pc # "idle"
  IN  /\ At(t, "idle")
      /\ conc[t].n < MaxThreadCalls
      /\ conc' = [conc EXCEPT
           ![t] = [Idle EXCEPT !.pc = "reset", !.inst = inst, !.mode = mode, !.seed = seed,
                            !.reset = reset, !.n = conc[t].n,
                            !.available = AvailableNames(KSAMPLER_NAMES,
                                            ParseSkipList(skip_samplers, KSAMPLER_NAMES)),
                            !.base = global_counters[key],
                            !.prev = last_execution_ids[key],
                            !.notfirst = NotFirstCall(global_counters, first_call_done,
                                                      key, <<"SamplerLoop", inst, mode>>),
                            !.peers = IF busy THEN 1 ELSE 0],
           ![Other(t)] = [@ EXCEPT !.peers = IF busy THEN @ + 1 ELSE @]]
      /\ UNCHANGED <<global_counters, last_execution_ids, first_call_done, clock, rng, History>>

\* if reset: SamplerLoop._global_counters[mode] = 0
StepReset(t) ==
  /\ At(t, "reset")
  /\ global_counters' = ResetCounter(global_counters, KeyOf(t), conc[t].reset)
  /\ Goto(t, "token")
  /\ UNCHANGED <<last_execution_ids, first_call_done, clock, rng, History>>

\* current_execution_id = ...
StepToken(t) ==
  /\ At(t, "token")
  /\ conc' = [conc EXCEPT ![t].pc = "compare",
                          ![t].id = ExecutionId(clock, t, conc[t].mode),
                          ![t].fresh = ExecutionId(clock, t, conc[t].mode) # conc[t].prev,
                          ![t].prev = None]
  /\ UNCHANGED <<global_counters, last_execution_ids, first_call_done, clock, rng, History>>

\* if SamplerLoop._last_execution_ids[mode] != current_execution_id
StepCompare(t) ==
  /\ At(t, "compare")
  /\ Goto(t, IF IsNewExecution(last_execution_ids, KeyOf(t), conc[t].id)
             THEN "remember" ELSE "read")
  /\ UNCHANGED <<global_counters, last_execution_ids, first_call_done, clock, rng, History>>

\* SamplerLoop._last_execution_ids[mode] = current_execution_id
StepRemember(t) ==
  /\ At(t, "remember")
  /\ last_execution_ids' = [last_execution_ids EXCEPT ![KeyOf(t)] = conc[t].id]
  /\ Goto(t, "check")
  /\ UNCHANGED <<global_counters, first_call_done, clock, rng, History>>

\* if SamplerLoop._global_counters[mode] > 0 or hasattr(...)
StepCheck(t) ==
  /\ At(t, "check")
  /\ Goto(t, IF NotFirstCall(global_counters, first_call_done, KeyOf(t), FlagOf(t))
             THEN "load" ELSE "setattr")
  /\ UNCHANGED <<global_counters, last_execution_ids, first_call_done, clock, rng, History>>

\* SamplerLoop._global_counters[mode] += 1: the load
StepLoad(t) ==
  /\ At(t, "load")
  /\ conc' = [conc EXCEPT ![t].pc = "store", ![t].tmp = global_counters[KeyOf(t)]]
  /\ UNCHANGED <<global_counters, last_execution_ids, first_call_done, clock, rng, History>>

\* SamplerLoop._global_counters[mode] += 1: the store
StepStore(t) ==
  /\ At(t, "store")
  /\ global_counters' = [global_counters EXCEPT ![KeyOf(t)] = conc[t].tmp + 1]
  /\ Goto(t, "read")
  /\ UNCHANGED <<last_execution_ids, first_call_done, clock, rng, History>>

\* setattr(self, f'_first_call_done_{mode}', True)
StepSetattr(t) ==
  /\ At(t, "setattr")
  /\ first_call_done' = first_call_done \cup {FlagOf(t)}
  /\ Goto(t, "read")
  /\ UNCHANGED <<global_counters, last_execution_ids, clock, rng, History>>

\* step = SamplerLoop._global_counters[mode]
StepRead(t) ==
  /\ At(t, "read")
  /\ conc' = [conc EXCEPT ![t].pc = IF conc[t].mode = "random" THEN "seed" ELSE "select",
                          ![t].step = global_counters[KeyOf(t)]]
  /\ UNCHANGED <<global_counters, last_execution_ids, first_call_done, clock, rng, History>>

\* the sequential and the ping_pong branch, and the return
StepSelect(t) ==
  /\ At(t, "select")
  /\ conc' = [conc EXCEPT
       ![t].pc = "idle",
       ![t].n = @ + 1,
       ![t].id = None,
       ![t].tmp = 0,
       ![t].index = IF conc[t].mode = "sequential"
                    THEN SequentialIndex(conc[t].step, Len(conc[t].available))
                    ELSE PingPongIndex(conc[t].step, Len(conc[t].available))]
  /\ UNCHANGED <<global_counters, last_execution_ids, first_call_done, clock, rng, History>>

\* random.seed(seed + step)
StepSeed(t) ==
  /\ At(t, "seed")
  /\ rng' = RandomReseed(rng, conc[t].seed, conc[t].step)
  /\ Goto(t, "draw")
  /\ UNCHANGED <<global_counters, last_execution_ids, first_call_done, clock, History>>

\* random.choice(available_samplers), .index(selected_sampler), and the return
StepDraw(t) ==
  /\ At(t, "draw")
  /\ rng' = RandomAdvance(rng)
  /\ conc' = [conc EXCEPT
       ![t].pc = "idle",
       ![t].n = @ + 1,
       ![t].id = None,
       ![t].tmp = 0,
       ![t].index = IndexOf(conc[t].available,
                            conc[t].available[RandBelow(rng, Len(conc[t].available)) + 1])]
  /\ UNCHANGED <<global_counters, last_execution_ids, first_call_done, clock, History>>

NextConc ==
  \/ Tick
  \/ \E t \in Threads, mode \in Modes, reset \in BOOLEAN :
       Begin(t, SharedInstance, mode, 0, reset, <<"">>)
  \/ \E t \in Threads : StepReset(t)
  \/ \E t \in Threads : StepToken(t)
  \/ \E t \in Threads : StepCompare(t)
  \/ \E t \in Threads : StepRemember(t)
  \/ \E t \in Threads : StepCheck(t)
  \/ \E t \in Threads : StepLoad(t)
  \/ \E t \in Threads : StepStore(t)
  \/ \E t \in Threads : StepSetattr(t)
  \/ \E t \in Threads : StepRead(t)
  \/ \E t \in Threads : StepSelect(t)
  \/ \E t \in Threads : StepSeed(t)
  \/ \E t \in Threads : StepDraw(t)

SpecConc == Init /\ [][NextConc]_vars

(***************************************************************************)
(* The traversal policies and the index decompositions over successive     *)
(* counter values.  pol holds one node with the sizes of its axes, most    *)
(* significant axis first, the mode and seed, and the counter value start  *)
(* of the first selection; out collects the indices selected for the       *)
(* counters start, start + 1, ..., at is the per-axis indices of the       *)
(* latest one, cycle_length the local of that name in the ping_pong branch.*)
(***************************************************************************)
PolicyAxes ==
  [SamplerLoop |-> 1, FloatRangeLoop |-> 2, SamplerSchedulerLoop |-> 2,
   ParametersRangeLoop |-> 3, AllParametersLoop |-> 5]
PolicyNodes == DOMAIN PolicyAxes
PolicyModes(node) ==
  IF node \in {"FloatRangeLoop", "ParametersRangeLoop"} THEN {NoMode} ELSE Modes

RECURSIVE Product(_)
Product(sizes) == IF sizes = <<>> THEN 1 ELSE Head(sizes) * Product(Tail(sizes))

\* the index the branch of the mode selects for the counter value step, from
\* the generator state the call finds
SelectIndex(mode, state, seed, step, total) ==
  CASE mode \in {"sequential", NoMode} -> SequentialIndex(step, total)
    [] mode = "random"    -> RandBelow(RandomReseed(state, seed, step), total)
    [] mode = "ping_pong" -> PingPongIndex(step, total)

\* the per-axis indices a node computes from the index
Decompose(node, index, sizes) ==
  CASE node = "SamplerLoop" -> <<index>>
    [] node = "FloatRangeLoop" -> DecomposeFloat(index, sizes[1], sizes[2])
    [] node = "SamplerSchedulerLoop" -> DecomposeSamplerScheduler(index, sizes[1], sizes[2])
    [] node = "ParametersRangeLoop" -> DecomposeParameters(index, sizes[1], sizes[2], sizes[3])
    [] node = "AllParametersLoop" ->
         DecomposeAll(index, sizes[5], sizes[4], sizes[3], sizes[2], sizes[1])

InitPolicy ==
  /\ Startup
  /\ \E node \in PolicyNodes :
       \E mode \in PolicyModes(node), sizes \in [1..PolicyAxes[node] -> 1..MaxAxis],
          start \in 0..MaxStart :
         \E seed \in SeedsOf(mode) :
           pol = [NoPolicy EXCEPT !.node = node, !.mode = mode, !.sizes = sizes,
                                  !.seed = seed, !.start = start]

\* the selection for the next counter value
PolicyStep ==
  LET total == Product(pol.sizes)
      step  == pol.start + Len(pol.out)
      index == SelectIndex(pol.mode, rng, pol.seed, step, total)
  IN  /\ Len(pol.out) < 2 * total
      /\ pol' = [pol EXCEPT !.out = Append(@, index),
                            !.at = Decompose(pol.node, index, pol.sizes),
                            !.cycle_length = IF pol.mode = "ping_pong"
                                             THEN PingPongCycle(total) ELSE @]
      /\ rng' = IF pol.mode = "random"
                THEN RandomAdvance(RandomReseed(rng, pol.seed, step)) ELSE rng
      /\ UNCHANGED <<global_counters, last_execution_ids, first_call_done, clock,
                     calls, last, hist, drawn, conc>>

NextPolicy == PolicyStep

SpecPolicy == InitPolicy /\ [][NextPolicy]_vars

(***************************************************************************)
(* Single evaluations over a wider range of inputs, on cursors that have   *)
(* already been used: every counter starts from a value up to MaxCounter,  *)
(* left there by earlier evaluations of the node object SharedInstance.    *)
(***************************************************************************)
\* numeric axes <<start, end, step>> in thousandths: two values; one value;
\* start > end; a start off the grid of hundredths; an end between two grid
\* values; a step that rounds away; step 0; a negative step
NumericSpecs ==
  { <<1000, 2000, 1000>>, <<1500, 1500, 500>>, <<2000, 1000, 500>>,
    <<1004, 1030, 10>>, <<1006, 1008, 10>>, <<1000, 1010, 4>>,
    <<1000, 2000, 0>>, <<1000, 2000, -500>> }
\* steps axes <<steps_start, steps_end, steps_interval>>
StepsSpecs ==
  { <<20, 30, 10>>, <<30, 20, 10>>, <<20, 20, 5>>, <<20, 30, 0>>, <<20, 30, 3>> }
\* skip_samplers and skip_schedulers, as the items of skip_str.split(',')
SkipSamplerSpecs ==
  { <<"">>, <<" ">>, <<" euler ", "bogus">>, <<"euler_ancestral", "euler">>, <<"Euler">>,
    <<"euler", "euler_cfg_pp", "euler_ancestral">> }
SkipSchedulerSpecs == { <<"">>, <<" karras ">>, <<"karras", "normal">> }

\* <<cfg, shift>>
FloatWideInputs ==
  {<<x, <<1000, 2000, 1000>> >> : x \in NumericSpecs}
    \cup {<< <<1000, 2000, 1000>>, x>> : x \in NumericSpecs}
\* <<cfg, shift, steps>>
ParametersWideInputs ==
  {<<x, <<1500, 1500, 500>>, <<20, 30, 10>> >> : x \in NumericSpecs}
    \cup {<< <<1500, 1500, 500>>, x, <<20, 30, 10>> >> : x \in NumericSpecs}
    \cup {<< <<1000, 2000, 1000>>, <<1500, 1500, 500>>, x>> : x \in StepsSpecs}
\* <<steps, cfg, shift, skip_samplers, skip_schedulers>>: around the domain of
\* 2 x 2 x 1 x 2 x 2 combinations, one input changed at a time
AllWideInputs ==
  {<<x, <<1000, 2000, 1000>>, <<1500, 1500, 500>>, <<" euler ", "bogus">>, <<"">> >> :
     x \in StepsSpecs}
    \cup {<< <<20, 30, 10>>, x, <<1500, 1500, 500>>, <<" euler ", "bogus">>, <<"">> >> :
            x \in NumericSpecs}
    \cup {<< <<20, 30, 10>>, <<1000, 2000, 1000>>, x, <<" euler ", "bogus">>, <<"">> >> :
            x \in NumericSpecs}
    \cup {<< <<20, 30, 10>>, <<1000, 2000, 1000>>, <<1500, 1500, 500>>, x, <<"">> >> :
            x \in SkipSamplerSpecs}
    \cup {<< <<20, 30, 10>>, <<1000, 2000, 1000>>, <<1500, 1500, 500>>, <<"">>, x>> :
            x \in SkipSchedulerSpecs}

\* the token an earlier evaluation left, from a clock reading before those of
\* the model
EarlierId(key) == IF key[2] = NoMode THEN <<-1, 1>> ELSE <<-1, 1, key[2]>>

InitInputs ==
  /\ \E counter \in 0..MaxCounter :
       /\ global_counters = [k \in Keys |-> counter]
       /\ last_execution_ids = [k \in Keys |-> IF counter = 0 THEN None ELSE EarlierId(k)]
       /\ first_call_done =
            IF counter = 0 THEN {} ELSE {<<k[1], SharedInstance, k[2]>> : k \in Keys}
  /\ clock = 0
  /\ rng = RandomSeed(0)
  /\ calls = 0
  /\ last = NoCall
  /\ hist = [k \in Keys |-> <<>>]
  /\ drawn = {}
  /\ conc = [t \in Threads |-> Idle]
  /\ pol = NoPolicy

\* the thread of the host that evaluates the nodes here
HostThread == CHOOSE thread \in Threads : TRUE

EvaluateFloatsWide ==
  \E thread \in {HostThread}, in \in FloatWideInputs, reset \in BOOLEAN :
    LoopFloats(SharedInstance, thread, in[1], in[2], reset, FALSE)

EvaluateParametersWide ==
  \E thread \in {HostThread}, in \in ParametersWideInputs, reset \in BOOLEAN :
    LoopParameters(SharedInstance, thread, in[1], in[2], in[3], reset, FALSE)

EvaluateSamplerWide ==
  \E thread \in {HostThread}, mode \in Modes, reset \in BOOLEAN, skip_samplers \in SkipSamplerSpecs :
    LoopSampler(SharedInstance, thread, mode, 0, reset, skip_samplers, FALSE)

EvaluateAllWide ==
  \E thread \in {HostThread}, mode \in Modes, in \in AllWideInputs, reset \in BOOLEAN :
    LoopAllParameters(SharedInstance, thread, mode, in[1], in[2], in[3], 0, reset,
                      in[4], in[5], FALSE)

NextInputs ==
  \/ calls < MaxInputCalls /\ EvaluateFloatsWide
  \/ calls < MaxInputCalls /\ EvaluateParametersWide
  \/ calls < MaxInputCalls /\ EvaluateSamplerWide
  \/ calls < MaxInputCalls /\ EvaluateAllWide

SpecInputs == InitInputs /\ [][NextInputs]_vars

(***************************************************************************)
(* Graph runs without the reset flag, the user changing the inputs of the  *)
(* nodes between one run and the next.  The cursors have been left at a    *)
(* counter up to MaxRunCounter by earlier runs through the node object     *)
(* SharedInstance; a run goes through that object or through one created   *)
(* since.                                                                  *)
(***************************************************************************)
\* the inputs of the runs with an even and with an odd number
\* skip_samplers: 3 and 2 samplers left
RunSamplerInputs == << <<"">>, <<" euler ", "bogus">> >>
\* <<cfg, shift>>: 2 x 1 and 3 x 1 combinations
RunFloatInputs ==
  << << <<1000, 2000, 1000>>, <<1500, 1500, 500>> >>,
     << <<1000, 2000, 500>>,  <<1500, 1500, 500>> >> >>
\* <<steps, cfg, shift, skip_samplers, skip_schedulers>>: 2 x 2 x 1 x 2 x 1 and
\* 1 x 2 x 1 x 3 x 1 combinations
RunAllInputs ==
  << << <<20, 30, 10>>, <<1000, 2000, 1000>>, <<1500, 1500, 500>>,
        <<" euler ", "bogus">>, <<"karras">> >>,
     << <<20, 20, 10>>, <<1000, 2000, 1000>>, <<1500, 1500, 500>>,
        <<"">>, <<"karras">> >> >>
\* the inputs of the run that follows the runs made so far
InputsOfRun(inputs) == inputs[(calls % 2) + 1]

InitRuns ==
  /\ \E counter \in 0..MaxRunCounter :
       /\ global_counters = [k \in Keys |-> counter]
       /\ last_execution_ids = [k \in Keys |-> IF counter = 0 THEN None ELSE EarlierId(k)]
       /\ first_call_done =
            IF counter = 0 THEN {} ELSE {<<k[1], SharedInstance, k[2]>> : k \in Keys}
  /\ clock = 0
  /\ rng = RandomSeed(0)
  /\ calls = 0
  /\ last = NoCall
  /\ hist = [k \in Keys |-> <<>>]
  /\ drawn = {}
  /\ conc = [t \in Threads |-> Idle]
  /\ pol = NoPolicy

EvaluateFloatsRun ==
  \E inst \in Instances, in \in {InputsOfRun(RunFloatInputs)} :
    LoopFloats(inst, HostThread, in[1], in[2], FALSE, FALSE)

EvaluateSamplerRun ==
  \E inst \in Instances, mode \in Modes, skip_samplers \in {InputsOfRun(RunSamplerInputs)} :
    LoopSampler(inst, HostThread, mode, 0, FALSE, skip_samplers, FALSE)

EvaluateAllRun ==
  \E inst \in Instances, mode \in Modes, in \in {InputsOfRun(RunAllInputs)} :
    LoopAllParameters(inst, HostThread, mode, in[1], in[2], in[3], 0, FALSE,
                      in[4], in[5], FALSE)

NextRuns ==
  \/ Tick
  \/ calls < MaxRunCalls /\ EvaluateFloatsRun
  \/ calls < MaxRunCalls /\ EvaluateSamplerRun
  \/ calls < MaxRunCalls /\ EvaluateAllRun

SpecRuns == InitRuns /\ [][NextRuns]_vars

(***************************************************************************)
(* One node run again and again: the host keeps running the graph with the *)
(* same mode and inputs and without the reset flag, through whichever node *)
(* object it holds, and the clock reading has moved on whenever a run      *)
(* begins, so that every run derives a token no run before it had.         *)
(***************************************************************************)
\* time.time() between two runs
TickLive ==
  /\ clock < calls
  /\ clock' = clock + 1
  /\ UNCHANGED <<global_counters, last_execution_ids, first_call_done, rng,
                 calls, last, hist, drawn, conc, pol>>

\* the run is the first, or one more of the runs made so far
SameRun(node, mode, args) ==
  last.node = "none" \/ (last.node = node /\ last.mode = mode /\ last.args = args)

RunSamplerLive ==
  \E inst \in Instances, mode \in Modes, skip_samplers \in SkipSamplerInputs :
    /\ SameRun("SamplerLoop", mode, <<mode, 0, FALSE, skip_samplers>>)
    /\ IsNewExecution(last_execution_ids, <<"SamplerLoop", mode>>,
                      ExecutionId(clock, HostThread, mode))
    /\ LoopSampler(inst, HostThread, mode, 0, FALSE, skip_samplers, FALSE)

RunAllLive ==
  \E inst \in Instances, mode \in Modes, in \in AllInputs :
    /\ SameRun("AllParametersLoop", mode,
               <<mode, in[1], in[2], in[3], 0, FALSE, in[4], in[5]>>)
    /\ IsNewExecution(last_execution_ids, <<"AllParametersLoop", mode>>,
                      ExecutionId(clock, HostThread, mode))
    /\ LoopAllParameters(inst, HostThread, mode, in[1], in[2], in[3], 0, FALSE,
                         in[4], in[5], FALSE)

NextLive ==
  \/ TickLive
  \/ calls < MaxLiveCalls /\ RunSamplerLive
  \/ calls < MaxLiveCalls /\ RunAllLive

\* the host does make its next run, and time does pass
SpecLive == Init /\ [][NextLive]_vars /\ WF_vars(NextLive)

(***************************************************************************)
(* Evaluations with whatever string arrives at the mode input: the list of *)
(* INPUT_TYPES is what the widget offers, the functions take the value as  *)
(* it comes (from a link, or from a caller other than the widget).         *)
(***************************************************************************)
\* a value that is none of "sequential", "random", "ping_pong"
InvalidMode == "bogus"
AnyModes == Modes \cup {InvalidMode}

EvaluateSamplerAnyMode ==
  \E mode \in AnyModes, reset \in BOOLEAN, skip_samplers \in SkipSamplerInputs :
    LoopSampler(SharedInstance, HostThread, mode, 0, reset, skip_samplers, FALSE)

EvaluateAllAnyMode ==
  \E mode \in AnyModes, in \in AllInputs, reset \in BOOLEAN :
    LoopAllParameters(SharedInstance, HostThread, mode, in[1], in[2], in[3], 0, reset,
                      in[4], in[5], FALSE)

NextModes ==
  \/ Tick
  \/ calls < MaxModeCalls /\ EvaluateSamplerAnyMode
  \/ calls < MaxModeCalls /\ EvaluateAllAnyMode

SpecModes == Init /\ [][NextModes]_vars

(***************************************************************************)
(* Properties of the cursor.                                               *)
(***************************************************************************)
Called == last.node # "none" /\ ~last.degraded /\ ~last.loops /\ last.error = "none"

\* C1: on a fresh cursor the first three invocations of a key, with tokens
\* A, A, B (B # A), use the counters 0, 0, 1.
C1_TokenSequenceCounters ==
  \A k \in Keys :
    (Len(hist[k]) = 3 /\ hist[k][1][1] = hist[k][2][1] /\ hist[k][3][1] # hist[k][2][1])
      => <<hist[k][1][2], hist[k][2][2], hist[k][3][2]>> = <<0, 0, 1>>

\* C2: an invocation without reset whose token is new, on a key that has been
\* invoked before (through whatever node object), uses the counter it found
\* plus 1.
C2_NewTokenIncrements ==
  (Called /\ ~last.reset /\ last.prev_id # None /\ last.id # last.prev_id)
    => last.step = last.pre + 1

\* C3: an evaluation that belongs to the same external invocation as the one
\* before it (same node object, thread, mode and inputs; no reset) leaves the
\* counter as it found it, whatever the clock reads.
C3_ReevaluationKeepsCounter ==
  (Called /\ last.reeval /\ ~last.reset) => last.step = last.pre

\* C4: an invocation with the reset flag uses the counter 0, and in sequential
\* mode returns current_index 0.
C4_ResetUsesCounterZero ==
  (Called /\ last.reset)
    => /\ last.step = 0
       /\ last.mode \in {"sequential", NoMode} => last.index = 0

\* C9: two random-mode invocations with the same seed, counter and domain size
\* returned the same index, and every index returned lies in [0, domain size).
C9_RandomDeterministic ==
  /\ \A a \in drawn : a[4] \in 0..(a[3] - 1)
  /\ \A a, b \in drawn : (a[1] = b[1] /\ a[2] = b[2] /\ a[3] = b[3]) => a[4] = b[4]

\* two random-mode invocations of one key gave a single pick: the second drew
\* from a generator the first had advanced
C9_Witness ==
  \E k \in Keys :
    /\ k[2] = "random"
    /\ Len(hist[k]) = 2
    /\ Cardinality(drawn) = 1
    /\ calls = 2

\* C5: two invocations of one key by the two threads that ran at the same
\* time, each with a token that differs from the other's and from the one it
\* found remembered, on a key that is past its first call and without reset,
\* leave the counter 2 above the value the earlier one found, and use two
\* different counter values.
C5_ConcurrentAdvance ==
  (/\ \A t \in Threads :
        /\ conc[t].pc = "idle" /\ conc[t].n >= 1 /\ conc[t].peers = 1
        /\ conc[t].notfirst /\ ~conc[t].reset /\ conc[t].fresh
   /\ conc[1].mode = conc[2].mode)
    => /\ global_counters[KeyOf(1)] = Min(conc[1].base, conc[2].base) + 2
       /\ conc[1].step # conc[2].step

\* the counter value of the i-th selection of pol
CounterAt(i) == pol.start + i - 1

PolicyTotal == Product(pol.sizes)

\* C6: in sequential order every selected index is the counter modulo the
\* domain size, and the latest domain-size selections, which are those of
\* consecutive counters from whatever counter they began at, hold every index
\* of the domain exactly once.
C6_SequentialPermutation ==
  pol.mode \in {"sequential", NoMode} /\ pol.node # "none" =>
    /\ \A i \in 1..Len(pol.out) : pol.out[i] = CounterAt(i) % PolicyTotal
    /\ Len(pol.out) >= PolicyTotal =>
         LET window == (Len(pol.out) - PolicyTotal + 1)..Len(pol.out)
         IN  \A x \in 0..(PolicyTotal - 1) :
               Cardinality({i \in window : pol.out[i] = x}) = 1

C6_Witness ==
  /\ pol.node = "AllParametersLoop" /\ pol.mode = "sequential"
  /\ pol.start = 1 /\ PolicyTotal = 8 /\ Len(pol.out) = 11

\* the ping-pong order of a domain of n >= 2 indices: 0, ..., n-1, n-2, ..., 1
PingPongOrder(n) == [k \in 1..(2 * n - 2) |-> IF k <= n THEN k - 1 ELSE 2 * n - 1 - k]

\* C7: in ping_pong order over a domain of n >= 2 indices the selection for
\* counter c is entry c mod (2n-2) of 0, ..., n-1, n-2, ..., 1, and no two
\* selections for consecutive counters are the same index.
C7_PingPongPattern ==
  pol.mode = "ping_pong" /\ PolicyTotal >= 2 =>
    /\ \A i \in 1..Len(pol.out) :
         pol.out[i] = PingPongOrder(PolicyTotal)[(CounterAt(i) % (2 * PolicyTotal - 2)) + 1]
    /\ \A i \in 1..(Len(pol.out) - 1) : pol.out[i] # pol.out[i + 1]

C7_Witness ==
  /\ pol.mode = "ping_pong" /\ pol.start = 0 /\ PolicyTotal = 4
  /\ pol.out = <<0, 1, 2, 3, 2, 1, 0, 1>>

\* C8: in ping_pong order over a domain of one index the cycle length is 1
\* and every selection is index 0.
C8_PingPongSingle ==
  pol.mode = "ping_pong" /\ PolicyTotal = 1 /\ pol.out # <<>> =>
    /\ pol.cycle_length = 1
    /\ \A i \in 1..Len(pol.out) : pol.out[i] = 0

C8_Witness ==
  /\ pol.mode = "ping_pong" /\ PolicyTotal = 1 /\ pol.start = 1
  /\ pol.node = "SamplerSchedulerLoop" /\ Len(pol.out) = 2

\* compose of the mixed-radix number system with these sizes, most
\* significant axis first
RECURSIVE Compose(_, _)
Compose(indices, sizes) ==
  IF indices = <<>> THEN 0
  ELSE Head(indices) * Product(Tail(sizes)) + Compose(Tail(indices), Tail(sizes))

\* C10: the per-axis indices a node computes from a selected index are one
\* per axis, each within its axis, and compose back to the selected index.
C10_MixedRadixRoundTrip ==
  pol.out # <<>> =>
    /\ Len(pol.at) = Len(pol.sizes)
    /\ \A a \in 1..Len(pol.at) : pol.at[a] \in 0..(pol.sizes[a] - 1)
    /\ Compose(pol.at, pol.sizes) = pol.out[Len(pol.out)]

C10_Witness ==
  /\ pol.node = "AllParametersLoop" /\ pol.sizes = <<2, 1, 2, 2, 2>>
  /\ pol.at = <<1, 0, 0, 1, 1>>

(***************************************************************************)
(* Properties of single evaluations.                                       *)
(***************************************************************************)
\* the latest evaluation returned through the return statement at the end of
\* this node's function
ReturnedBy(node) == last.node = node /\ ~last.degraded /\ ~last.loops /\ last.error = "none"

\* the value sequences of the five axes of the latest AllParametersLoop
\* evaluation, in the order steps, cfg, shift, sampler, scheduler
AllAxes ==
  << StepsAxis(last.args[2]).values, FloatAxis(last.args[3]).values,
     FloatAxis(last.args[4]).values,
     AvailableNames(KSAMPLER_NAMES, ParseSkipList(last.args[7], KSAMPLER_NAMES)),
     AvailableNames(SCHEDULER_NAMES, ParseSkipList(last.args[8], SCHEDULER_NAMES)) >>

\* the number of flat indices after which axis a of AllAxes moves on
AllStride(a) == Product([i \in 1..(a - 1) |-> Len(AllAxes[i])])

\* C11: AllParametersLoop returns, on axis a of steps, cfg, shift, sampler,
\* scheduler, the value at position (index div stride) mod length, the stride
\* of an axis being the product of the lengths of the axes before it: steps
\* moves with every index, scheduler only after all steps x cfg x shift x
\* sampler combinations.
C11_AllAxisOrder ==
  ReturnedBy("AllParametersLoop") =>
    \A a \in 1..5 :
      last.ret[a] = AllAxes[a][((last.index \div AllStride(a)) % Len(AllAxes[a])) + 1]

C11_Witness ==
  /\ ReturnedBy("AllParametersLoop")
  /\ last.total = 16 /\ last.index = 9
  /\ last.ret[1] = 30 /\ last.ret[2] = 1000 /\ last.ret[5] = "karras"

\* C12: AllParametersLoop reports as total_combinations the product of the
\* lengths of its five axes; index 0 selects the first value of every axis and
\* index total_combinations - 1 the last value of every axis.
C12_AllTotalAndCorners ==
  ReturnedBy("AllParametersLoop") =>
    /\ last.total = Product([a \in 1..5 |-> Len(AllAxes[a])])
    /\ last.ret[7] = last.total
    /\ last.ret[6] = last.index
    /\ last.index = 0 => \A a \in 1..5 : last.ret[a] = AllAxes[a][1]
    /\ last.index = last.total - 1 => \A a \in 1..5 : last.ret[a] = AllAxes[a][Len(AllAxes[a])]

C12_Witness ==
  /\ ReturnedBy("AllParametersLoop")
  /\ [a \in 1..5 |-> Len(AllAxes[a])] = <<2, 2, 1, 2, 2>>
  /\ last.ret = <<30, 2000, 1500, "euler_ancestral", "karras", 15, 16,
                  <<30, 2000, 1500, "euler_ancestral", "karras">> >>

\* the numeric axes of the latest evaluation, each <<kind, specification,
\* generated axis, position of its value in the returned tuple>>
NumericAxes ==
  CASE last.node = "FloatRangeLoop" ->
         { <<"float", last.args[1], FloatAxisUnguarded(last.args[1]), 1>>,
           <<"float", last.args[2], FloatAxisUnguarded(last.args[2]), 2>> }
    [] last.node = "ParametersRangeLoop" ->
         { <<"float", last.args[1], FloatAxis(last.args[1]), 2>>,
           <<"float", last.args[2], FloatAxis(last.args[2]), 3>>,
           <<"int", last.args[3], StepsAxis(last.args[3]), 1>> }
    [] last.node = "AllParametersLoop" ->
         { <<"int", last.args[2], StepsAxis(last.args[2]), 1>>,
           <<"float", last.args[3], FloatAxis(last.args[3]), 2>>,
           <<"float", last.args[4], FloatAxis(last.args[4]), 3>> }
    [] OTHER -> {}

StrictlyAscending(values) == \A i \in 1..(Len(values) - 1) : values[i] < values[i + 1]

\* C13: a numeric axis with start > end is the one-element sequence [start]:
\* an evaluation whose loops all end does not take the zero-domain path, its
\* domain is not empty, and it returns start on that axis.
C13_StartAfterEndSingle ==
  ~last.loops =>
    \A x \in NumericAxes :
      x[2][1] > x[2][2] =>
        /\ x[3].values = <<x[2][1]>>
        /\ ~last.degraded
        /\ last.total > 0
        /\ last.ret[x[4]] = x[2][1]

\* C14: a numeric axis with step > 0 and start <= end is generated in finitely
\* many steps as a non-empty, strictly ascending sequence whose first element
\* is start (rounded to 2 decimals on a float axis) and whose last element is
\* below end + step.
C14_AscendingRange ==
  \A x \in NumericAxes :
    (x[2][3] > 0 /\ x[2][1] <= x[2][2]) =>
      /\ ~x[3].hangs
      /\ x[3].values # <<>>
      /\ StrictlyAscending(x[3].values)
      /\ x[3].values[1] = IF x[1] = "float" THEN Round2(x[2][1]) ELSE x[2][1]
      /\ x[3].values[Len(x[3].values)] < x[2][2] + x[2][3]

\* C15: an evaluation with a numeric axis whose step is 0 or negative (and
\* start <= end) does not stay in the generation loop forever.
C15_NonPositiveStepEnds ==
  (\E x \in NumericAxes : x[2][3] <= 0 /\ x[2][1] <= x[2][2]) => ~last.loops

\* the names of the universe that the exclusion items name after trimming
Excluded(items, universe) ==
  {n \in Range(universe) : \E i \in 1..Len(items) : Strip(items[i]) = n}

\* the universe without the excluded names, in the order of the universe
Kept(items, universe) == SelectSeq(universe, LAMBDA n : n \notin Excluded(items, universe))

\* C16: when the exclusion list names every name of the universe, the
\* evaluation returns normally with the axis being the full universe:
\* total_combinations counts all its names and the selected name is one of
\* them.
C16_FullExclusionFallsBack ==
  /\ (last.node = "SamplerLoop" /\ Kept(last.args[4], KSAMPLER_NAMES) = <<>>) =>
       /\ ReturnedBy("SamplerLoop")
       /\ last.total = Len(KSAMPLER_NAMES)
       /\ last.ret[3] = Len(KSAMPLER_NAMES)
       /\ last.ret[1] = KSAMPLER_NAMES[last.index + 1]
  /\ (last.node = "AllParametersLoop" /\ ~last.loops
        /\ Kept(last.args[7], KSAMPLER_NAMES) = <<>>) =>
       /\ ~last.degraded
       /\ last.total = Len(AllAxes[1]) * Len(AllAxes[2]) * Len(AllAxes[3])
                         * Len(KSAMPLER_NAMES) * Len(Kept(last.args[8], SCHEDULER_NAMES))
       /\ last.ret[4] \in Range(KSAMPLER_NAMES)
  /\ (last.node = "AllParametersLoop" /\ ~last.loops
        /\ Kept(last.args[8], SCHEDULER_NAMES) = <<>>) =>
       /\ ~last.degraded
       /\ last.total = Len(AllAxes[1]) * Len(AllAxes[2]) * Len(AllAxes[3])
                         * Len(Kept(last.args[7], KSAMPLER_NAMES)) * Len(SCHEDULER_NAMES)
       /\ last.ret[5] \in Range(SCHEDULER_NAMES)

C16_Witness ==
  /\ ReturnedBy("AllParametersLoop")
  /\ Kept(last.args[8], SCHEDULER_NAMES) = <<>>
  /\ last.total = 24 /\ last.ret[5] = "karras"

\* C17: the filtered axis is the universe, in its order, without the names
\* the exclusion string names after trimming; unknown names and blank items
\* remove nothing (the case of C16, every name excluded, apart).
C17_FilterKeepsOrder ==
  /\ (last.node = "SamplerLoop" /\ Kept(last.args[4], KSAMPLER_NAMES) # <<>>) =>
       /\ ReturnedBy("SamplerLoop")
       /\ last.total = Len(Kept(last.args[4], KSAMPLER_NAMES))
       /\ last.ret[1] = Kept(last.args[4], KSAMPLER_NAMES)[last.index + 1]
       /\ Excluded(last.args[4], KSAMPLER_NAMES) = {} => last.total = Len(KSAMPLER_NAMES)
  /\ (ReturnedBy("AllParametersLoop") /\ Kept(last.args[7], KSAMPLER_NAMES) # <<>>
        /\ Kept(last.args[8], SCHEDULER_NAMES) # <<>>) =>
       /\ last.total = Len(AllAxes[1]) * Len(AllAxes[2]) * Len(AllAxes[3])
                         * Len(Kept(last.args[7], KSAMPLER_NAMES))
                         * Len(Kept(last.args[8], SCHEDULER_NAMES))
       /\ \E i \in 1..Len(Kept(last.args[7], KSAMPLER_NAMES)) :
            last.ret[4] = Kept(last.args[7], KSAMPLER_NAMES)[i]
       /\ \E i \in 1..Len(Kept(last.args[8], SCHEDULER_NAMES)) :
            last.ret[5] = Kept(last.args[8], SCHEDULER_NAMES)[i]

C17_Witness ==
  /\ ReturnedBy("SamplerLoop")
  /\ last.args[4] = <<" euler ", "bogus">>
  /\ last.total = 2 /\ last.index = 1 /\ last.ret[1] = "euler_ancestral"

\* the key of the cursor the latest evaluation belongs to
LastKey == <<last.node, last.mode>>

\* C18: an evaluation, with or without reset, leaves the counter and the
\* remembered token of every key other than its own unchanged.
C18_KeyIsolation ==
  [][\A k \in Keys :
       k # <<last'.node, last'.mode>> =>
         /\ global_counters'[k] = global_counters[k]
         /\ last_execution_ids'[k] = last_execution_ids[k]]_vars

C18_Witness ==
  /\ ReturnedBy("SamplerLoop") /\ last.mode = "sequential" /\ last.reset
  /\ global_counters[LastKey] = 1
  /\ \A k \in Keys \ {LastKey} :
       global_counters[k] = MaxCounter /\ last_execution_ids[k] = EarlierId(k)

\* C19: an evaluation that takes the zero-domain return, or that stays in a
\* generation loop, leaves the counter and the remembered token of its key as
\* they were, reset or not: the next evaluation finds the cursor as the one
\* before did.
C19_FailureKeepsCursor ==
  (last.degraded \/ last.loops) =>
    /\ global_counters[LastKey] = last.pre
    /\ last_execution_ids[LastKey] = last.prev_id

C19_Witness ==
  /\ last.degraded /\ last.reset /\ last.node = "FloatRangeLoop"
  /\ global_counters[LastKey] = MaxCounter

\* the position of an output in the declared outputs of a node
OutputPosition(node, name) ==
  CHOOSE i \in 1..Len(RETURN_NAMES[node]) : RETURN_NAMES[node][i] = name

\* C20: the zero-domain return has as many outputs as the node declares, with
\* 0 at current_index and at total_combinations.
C20_DegradedWellTyped ==
  last.degraded =>
    /\ Len(last.ret) = Len(RETURN_TYPES[last.node])
    /\ last.ret[OutputPosition(last.node, "current_index")] = 0
    /\ last.ret[OutputPosition(last.node, "total_combinations")] = 0

\* C23: a steps axis with start <= end and interval >= 1 is generated, in
\* finitely many steps, as exactly start, start + interval, ... up to the
\* largest such value not above end: floor((end - start) / interval) + 1
\* values, the first being start; the steps value returned is one of them.
C23_IntegerStepsExact ==
  \A x \in NumericAxes :
    (x[1] = "int" /\ x[2][1] <= x[2][2] /\ x[2][3] >= 1) =>
      /\ ~x[3].hangs
      /\ x[3].values = [k \in 1..(((x[2][2] - x[2][1]) \div x[2][3]) + 1) |->
                          x[2][1] + (k - 1) * x[2][3]]
      /\ Called => \E k \in 1..Len(x[3].values) : last.ret[x[4]] = x[3].values[k]

C23_Witness ==
  /\ ReturnedBy("ParametersRangeLoop")
  /\ last.args[3] = <<20, 30, 3>>
  /\ last.total = 8 /\ last.index = 7 /\ last.ret[1] = 29

\* C24: an evaluation with the reset flag is never taken for a repetition: its
\* token comparison, made after the reset, finds the token new whatever token
\* the key remembered when the evaluation began.
C24_ResetClearsToken ==
  (Called /\ last.reset) =>
    IsNewExecution([k \in {LastKey} |-> last.prev_id], LastKey, last.id)

\* C25: the token of an external invocation differs from the token the key
\* remembers from the invocation before it, whatever the thread and the clock
\* reading of the two: an evaluation that is not a re-evaluation inside the
\* previous invocation never derives the remembered token again.
C25_TokenUnique ==
  (Called /\ ~last.reeval /\ last.prev_id # None) => last.id # last.prev_id

\* the axes of the latest evaluation from the fastest to the slowest, each
\* <<value sequence, position of its value in the returned tuple>>
ReturnedAxes ==
  CASE last.node = "FloatRangeLoop" ->
         << <<FloatAxisUnguarded(last.args[2]).values, 2>>,
            <<FloatAxisUnguarded(last.args[1]).values, 1>> >>
    [] last.node = "ParametersRangeLoop" ->
         << <<FloatAxis(last.args[2]).values, 3>>, <<FloatAxis(last.args[1]).values, 2>>,
            <<StepsAxis(last.args[3]).values, 1>> >>
    [] last.node = "SamplerLoop" ->
         << <<AvailableNames(KSAMPLER_NAMES, ParseSkipList(last.args[4], KSAMPLER_NAMES)), 1>> >>
    [] last.node = "AllParametersLoop" -> [a \in 1..5 |-> <<AllAxes[a], a>>]

\* the combination label the node builds from the values v, in thousandths
\* where the source formats floats
CombinationLabel(node, v) ==
  CASE node = "FloatRangeLoop" -> <<"CFG", v[1], "Shift", v[2]>>
    [] node = "SamplerLoop" -> <<"Sampler", v[1]>>
    [] OTHER -> v

\* C26: an evaluation with a non-empty domain, in whatever mode and from
\* whatever counter, returns a current_index within [0, total_combinations),
\* total_combinations being the product of the axis lengths; the value it
\* returns on each axis is the element of the axis at the position the
\* returned index decomposes to, and the label names those same values.
C26_IndexValueConsistent ==
  Called =>
    LET n == Len(ReturnedAxes)
        index == last.ret[n + 1]
        total == last.ret[n + 2]
        stride(a) == Product([i \in 1..(a - 1) |-> Len(ReturnedAxes[i][1])])
    IN  /\ index = last.index
        /\ total = Product([a \in 1..n |-> Len(ReturnedAxes[a][1])])
        /\ 0 <= index /\ index < total
        /\ \A a \in 1..n :
             last.ret[ReturnedAxes[a][2]] =
               ReturnedAxes[a][1][((index \div stride(a)) % Len(ReturnedAxes[a][1])) + 1]
        /\ last.ret[n + 3] = CombinationLabel(last.node, [a \in 1..n |-> last.ret[a]])

C26_Witness ==
  /\ ReturnedBy("AllParametersLoop") /\ last.mode = "ping_pong" /\ last.step = 16
  /\ last.ret = <<20, 2000, 1500, "euler_ancestral", "karras", 14, 16,
                  <<20, 2000, 1500, "euler_ancestral", "karras">> >>

\* C27: an evaluation all of whose numeric axes have start <= end and a step
\* above 0, however small, leaves its generation loops and returns.
C27_EveryInvocationCompletes ==
  (last.node # "none" /\ \A x \in NumericAxes : x[2][1] <= x[2][2] /\ x[2][3] > 0)
    => ~last.loops

\* C28: a random-mode invocation that has returned, whatever the other thread
\* did meanwhile, returned the index that the generator seeded with its own
\* seed + counter draws for its own domain size.
C28_ConcurrentRandomOwnSeed ==
  \A t \in Threads :
    (conc[t].pc = "idle" /\ conc[t].n >= 1 /\ conc[t].mode = "random") =>
      conc[t].index =
        RandBelow(RandomSeed(conc[t].seed + conc[t].step), Len(conc[t].available))

\* C30: in ping_pong order, for every domain size and every counter value
\* selected for, the index of the forward/backward formula lies in
\* [0, domain size - 1] already: the clamp returns it as it is.
C30_ClampNeverEffective ==
  pol.mode = "ping_pong" =>
    \A i \in 1..Len(pol.out) :
      /\ PingPongRaw(CounterAt(i), PolicyTotal) \in 0..(PolicyTotal - 1)
      /\ pol.out[i] = PingPongRaw(CounterAt(i), PolicyTotal)

\* a backward sweep that has come back to index 1
C30_Witness ==
  /\ pol.mode = "ping_pong" /\ pol.start = 2
  /\ PolicyTotal = 4 /\ pol.out = <<2, 3, 2, 1>>

(***************************************************************************)
(* Properties of successive graph runs.                                    *)
(***************************************************************************)
\* the number of combinations of the inputs of the latest evaluation
DomainSize == Product([a \in 1..Len(ReturnedAxes) |-> Len(ReturnedAxes[a][1])])

\* C21: an evaluation whose inputs differ from those of the evaluation before
\* it uses the domain of its own inputs, and the counter as the cursor rules
\* alone give it: the counter it found, or that counter plus 1 (plus 1 when
\* the token is new and the counter was above 0), never a counter set back;
\* its sequential index is that counter modulo the size of the new domain.
C21_DomainRecomputed ==
  Called =>
    /\ last.total = DomainSize
    /\ last.step >= last.pre /\ last.step <= last.pre + 1
    /\ (last.pre > 0 /\ last.id # last.prev_id) => last.step = last.pre + 1
    /\ global_counters[LastKey] = last.step
    /\ last.mode \in {"sequential", NoMode} => last.index = last.step % DomainSize

\* the second of two runs of one key: 3 samplers at counter 4, then 2 samplers
\* at counter 5
C21_Witness ==
  /\ calls = 2 /\ ReturnedBy("SamplerLoop") /\ last.mode = "sequential"
  /\ Len(hist[LastKey]) = 2 /\ hist[LastKey][1][2] = 4
  /\ last.args[4] = RunSamplerInputs[2]
  /\ last.step = 5 /\ last.total = 2 /\ last.index = 1

\* C22: without the reset flag no counter ever decreases, and an evaluation
\* through a node object that has not evaluated the key before goes on from
\* the counter the key has: it uses that counter plus 1 when its token is new
\* and the counter is above 0, and that counter otherwise.
C22_CounterOutlivesInstances ==
  [][/\ \A k \in Keys : global_counters'[k] >= global_counters[k]
     /\ (/\ calls' = calls + 1 /\ ~last'.degraded /\ ~last'.loops
         /\ last'.inst # SharedInstance
         /\ <<last'.node, last'.inst, last'.mode>> \notin first_call_done) =>
          LET k == <<last'.node, last'.mode>>
          IN  /\ last'.step = global_counters'[k]
              /\ global_counters'[k] =
                   IF last'.id # last_execution_ids[k] /\ global_counters[k] > 0
                   THEN global_counters[k] + 1 ELSE global_counters[k]]_vars

C22_Witness ==
  /\ ReturnedBy("FloatRangeLoop") /\ last.inst # SharedInstance
  /\ last.pre = MaxRunCounter /\ last.step = MaxRunCounter + 1
  /\ global_counters[LastKey] = MaxRunCounter + 1
  /\ <<last.node, last.inst, last.mode>> \notin first_call_done

\* the sizes of the domains that SpecLive runs over
LiveDomains ==
  {Len(AvailableNames(KSAMPLER_NAMES, ParseSkipList(skip_samplers, KSAMPLER_NAMES))) :
     skip_samplers \in SkipSamplerInputs}
    \cup {Len(StepsAxis(in[1]).values) * Len(FloatAxis(in[2]).values)
            * Len(FloatAxis(in[3]).values)
            * Len(AvailableNames(KSAMPLER_NAMES, ParseSkipList(in[4], KSAMPLER_NAMES)))
            * Len(AvailableNames(SCHEDULER_NAMES, ParseSkipList(in[5], SCHEDULER_NAMES))) :
            in \in AllInputs}

LargestLiveDomain == CHOOSE n \in LiveDomains : \A m \in LiveDomains : m <= n

\* the runs it takes at most to see every index again: a whole ping_pong
\* cycle, and the runs that node objects spend on their first call
RunsToRecur == 2 * last.total + Cardinality(Instances)

C31_InvalidModeFallsBack ==
  (last.node \in MultiModeNodes /\ last.mode \notin Modes) =>
    /\ DOMAIN global_counters = Keys
    /\ DOMAIN last_execution_ids = Keys
    /\ last.error = "none"
    /\ last.index = 0
    /\ last.ret[1] = ReturnedAxes[1][1][1]

====
